---------------------------- MODULE Spec2Model ----------------------------
(***************************************************************************)
(* The channel-indexed attribute cache and command-translation layer of    *)
(* the python-ivi drivers ivi/R&S/hmp2020.py (DC power supply) and         *)
(* ivi/rigol/rigolDG1022Z.py (function generator), and the waveform        *)
(* upload of the latter.                                                   *)
(*                                                                         *)
(* One session drives one instrument object.  Every public getter and      *)
(* setter of the two drivers is one action, translated from its code.      *)
(* Physical quantities are fixed-point integers in thousandths (1.0 is     *)
(* 1000); wire commands are the strings the code formats.                  *)
(***************************************************************************)
EXTENDS Integers, Sequences, FiniteSets, TLC

VARIABLES
    driver,         \* the driver class of the session's instrument object
    simulate,       \* self._driver_operation_simulate
    output_count,   \* self._output_count
    output_spec,    \* self._output_spec (hmp2020): the per-channel range table
    scope,          \* the attribute keys the client session uses
    val,            \* val[k][i]: the attribute list self._<k>[i]
    valid,          \* valid[k][i]: self._cache_valid of tag k, index i
    arbitrary_waveform_n,   \* self._arbitrary_waveform_n (rigolDG1022Z)
    catalog_names,  \* self._catalog_names (rigolDG1022Z)
    returned,       \* the handles the waveform uploads of the session returned
    dev_sel,        \* the instrument's selected-channel register (hmp2020)
    call,           \* the most recent call: what was asked, sent and returned
    threads,        \* threads[t]: where caller t is inside a hmp2020 call
    mutex,          \* the lock around a call: unused, free or its holder
    dev_volt        \* dev_volt[n]: the voltage the instrument holds for
                    \* its channel n (hmp2020)

vars == <<driver, simulate, output_count, output_spec, scope, val, valid,
          arbitrary_waveform_n, catalog_names, returned, dev_sel, call,
          threads, mutex, dev_volt>>

\* What no call made by a single caller changes: the configuration of the
\* session and the state of the concurrent callers.
session == <<driver, simulate, output_count, output_spec, scope,
             threads, mutex, dev_volt>>

others == <<session, arbitrary_waveform_n, catalog_names, returned>>

----------------------------------------------------------------------------
(* Bounds of the model. *)

\* The client session uses at most this many attribute keys.
MaxKeys == 1

\* Out of band the instrument stores waveforms among w0001.wfm ..
\* w<MaxStored>.wfm.
MaxStored == 2

\* The handle counter is followed up to the first number above them.
MaxHandle == MaxStored + 1
MaxSample == 1500               \* the largest sample magnitude, in thousandths

----------------------------------------------------------------------------
(* Attribute keys: the name of the attribute list behind each getter/setter. *)

HmpKeys == {"output_current_limit", "output_voltage_level", "output_enabled",
            "output_ovp_enabled"}

RigolKeys == {"output_enabled", "output_impedance",
              "output_reference_clock_source",
              "output_standard_waveform_amplitude",
              "output_standard_waveform_dc_offset",
              "output_standard_waveform_duty_cycle_high",
              "output_standard_waveform_start_phase",
              "output_standard_waveform_frequency",
              "output_standard_waveform_waveform",
              "output_arbitrary_gain", "output_arbitrary_offset",
              "output_arbitrary_waveform"}

Keys == IF driver = "hmp2020" THEN HmpKeys ELSE RigolKeys

\* The keys whose setter can change the other channels' state.
CascadingKeys == {"output_enabled", "output_reference_clock_source",
                  "output_standard_waveform_frequency"}

\* The value each attribute list holds after _init_outputs.
InitialValue(k) ==
    CASE k \in {"output_enabled", "output_ovp_enabled"} -> FALSE
      [] k = "output_impedance" -> 50000
      [] k = "output_standard_waveform_duty_cycle_high" -> 50000
      [] k \in {"output_reference_clock_source", "output_arbitrary_waveform"} -> ""
      [] k = "output_standard_waveform_waveform" -> "sine"
      [] OTHER -> 0

----------------------------------------------------------------------------
(* Number formatting and parsing. *)

Digit(d) == ToString(d)

\* "%.2f" % value, value in thousandths; the inputs used have no rounding tie.
Cents(a) == (a + 5) \div 10

Fmt2Abs(a) ==
    ToString(Cents(a) \div 100) \o "." \o Digit((Cents(a) % 100) \div 10)
        \o Digit(Cents(a) % 10)

Fmt2(v) == IF v < 0 THEN "-" \o Fmt2Abs(-v) ELSE Fmt2Abs(v)

\* The replies the instrument gives to a numeric query, and float(reply).
FloatReplies == {"2.500", "1.000E+01"}

ParseFloat(resp) ==
    CASE resp = "2.500" -> 2500
      [] resp = "1.000E+01" -> 10000

\* self._get_bool_str(value)
get_bool_str(b) == IF b THEN "1" ELSE "0"

BoolReplies == {"1", "0"}

----------------------------------------------------------------------------
(* The validity-flag store of the driver base class. *)

get_cache_valid(k, index) == valid[k][index]

set_cache_valid(vd, flag, k, index) == [vd EXCEPT ![k][index] = flag]

\* A store that writes the value to every channel of the key.
WithValueAllChannels(vl, k, index, v) ==
    [vl EXCEPT ![k] = [i \in DOMAIN vl[k] |-> v]]

WithValue(vl, k, index, v) == [vl EXCEPT ![k][index] = v]

RECURSIVE InvalidateColumn(_, _, _)
\* for k in range(self._output_count): self._set_cache_valid(valid=False,index=k)
InvalidateColumn(vd, k, cnt) ==
    IF cnt = 0 THEN vd
    ELSE InvalidateColumn(set_cache_valid(vd, FALSE, k, cnt - 1), k, cnt - 1)

----------------------------------------------------------------------------
(* The transport and the instrument's channel register. *)

Channels == 0 .. (output_count - 1)

NSelect(index) == "instrument:nselect " \o ToString(index + 1)

\* The select skipped when the instrument has the channel selected already.
SelectIfChanged(index) ==
    IF output_count > 1 /\ dev_sel # index + 1 THEN <<NSelect(index)>> ELSE <<>>

\* if self._output_count > 1: self._write("instrument:nselect %d" % (index+1))
Select(index) == IF output_count > 1 THEN <<NSelect(index)>> ELSE <<>>

IsNSelect(cmd) == \E i \in 0 .. 1 : cmd = NSelect(i)

RECURSIVE Selected(_, _)
\* The channel register after the instrument has processed cmds.
Selected(sel, cmds) ==
    IF cmds = <<>> THEN sel
    ELSE Selected(IF IsNSelect(Head(cmds))
                  THEN CHOOSE i \in 1 .. 2 : Head(cmds) = NSelect(i - 1)
                  ELSE sel,
                  Tail(cmds))

Call(op, k, index, arg, status, ret, sent) ==
    [op |-> op, key |-> k, index |-> index, arg |-> arg, status |-> status,
     ret |-> ret, sent |-> sent, block |-> <<>>, reply |-> <<>>]

\* A call that raises before any transport call and changes nothing.
Raise(op, k, index, arg, status) ==
    /\ call' = Call(op, k, index, arg, status, <<>>, <<>>)
    /\ UNCHANGED <<val, valid, dev_sel>>

\* A call answered from the attribute list, with no transport call.
Local(op, k, index, arg, newval, newvalid, ret) ==
    /\ call' = Call(op, k, index, arg, "ok", ret, <<>>)
    /\ val' = newval
    /\ valid' = newvalid
    /\ UNCHANGED dev_sel

\* A call whose transport calls are cmds, in order, followed by the update of
\* the attribute list and flags.  tf = 0: every transport call returns;
\* tf = j: the j-th transport call raises and the handler ends there.
Transact(op, k, index, arg, cmds, tf, newval, newvalid, ret) ==
    IF tf = 0
    THEN /\ call' = Call(op, k, index, arg, "ok", ret, cmds)
         /\ val' = newval
         /\ valid' = newvalid
         /\ dev_sel' = Selected(dev_sel, cmds)
    ELSE /\ call' = Call(op, k, index, arg, "TransportFailure", <<>>,
                         SubSeq(cmds, 1, tf))
         /\ UNCHANGED <<val, valid>>
         /\ dev_sel' = Selected(dev_sel, SubSeq(cmds, 1, tf - 1))

----------------------------------------------------------------------------
(* hmp2020 *)

\* self._output_spec of hmp2020.__init__: one entry, 30 V and 5 A.
HMP2020_SPEC == <<[voltage_max |-> 30000, current_max |-> 5000]>>

\* The range table of a negative-only supply of the family.
NEGATIVE_SPEC == <<[voltage_max |-> -30000, current_max |-> -5000]>>

HmpSpecs == {HMP2020_SPEC, NEGATIVE_SPEC}

HmpOutputCounts == {1, 2}

\* The values a client passes to the voltage and current setters.
VoltageArgs ==
    IF output_spec[1].voltage_max >= 0
    THEN {-4, 0, 10004, 30000, 30004}
    ELSE {-30004, -30000, -10004, 0, 4}

CurrentArgs ==
    IF output_spec[1].current_max >= 0
    THEN {-4, 0, 1004, 5000, 5004}
    ELSE {-5004, -5000, -1004, 0, 4}

HasSpec(index) == index + 1 \in DOMAIN output_spec

hmp2020_get_output_current_limit(index) ==
    LET k == "output_current_limit" IN
    /\ driver = "hmp2020" /\ k \in scope
    /\ IF ~simulate /\ ~get_cache_valid(k, index)
       THEN \E resp \in FloatReplies :
            LET cmds == Select(index) \o <<"CURR?">> IN
            \E tf \in 0 .. Len(cmds) :
              Transact("get", k, index, <<>>, cmds, tf,
                       WithValue(val, k, index, ParseFloat(resp)),
                       set_cache_valid(valid, TRUE, k, index),
                       <<ParseFloat(resp)>>)
       ELSE Local("get", k, index, <<>>, val, valid, <<val[k][index]>>)
    /\ UNCHANGED others

\* if value < 0 or value > self._output_spec[index]['current_max']
CurrentOutOfRange(index, value) ==
    IF value < 0 THEN TRUE ELSE value > output_spec[index + 1].current_max

\* The range table is read only when value < 0 is false.
hmp2020_set_output_current_limit(index, value) ==
    LET k == "output_current_limit" IN
    /\ driver = "hmp2020" /\ k \in scope
    /\ IF value >= 0 /\ ~HasSpec(index)
       THEN Raise("set", k, index, <<value>>, "IndexError")
       ELSE IF CurrentOutOfRange(index, value)
       THEN Raise("set", k, index, <<value>>, "OutOfRange")
       ELSE IF ~simulate
       THEN LET cmds == Select(index) \o <<"CURR " \o Fmt2(value)>> IN
            \E tf \in 0 .. Len(cmds) :
              Transact("set", k, index, <<value>>, cmds, tf,
                       WithValue(val, k, index, value),
                       set_cache_valid(valid, TRUE, k, index), <<>>)
       ELSE Local("set", k, index, <<value>>, WithValue(val, k, index, value),
                  set_cache_valid(valid, TRUE, k, index), <<>>)
    /\ UNCHANGED others

hmp2020_get_output_voltage_level(index) ==
    LET k == "output_voltage_level" IN
    /\ driver = "hmp2020" /\ k \in scope
    /\ IF ~simulate /\ ~get_cache_valid(k, index)
       THEN \E resp \in FloatReplies :
            LET cmds == Select(index) \o <<"VOLT?">> IN
            \E tf \in 0 .. Len(cmds) :
              Transact("get", k, index, <<>>, cmds, tf,
                       WithValue(val, k, index, ParseFloat(resp)),
                       set_cache_valid(valid, TRUE, k, index),
                       <<ParseFloat(resp)>>)
       ELSE Local("get", k, index, <<>>, val, valid, <<val[k][index]>>)
    /\ UNCHANGED others

\* The second _write is called with the unformatted text and index+1 as a
\* second argument: the text handed to the transport is "OUTP:SEL %d".
hmp2020_set_output_enabled(index, value) ==
    LET k == "output_enabled"
        newvalid == set_cache_valid(InvalidateColumn(valid, k, output_count),
                                    TRUE, k, index)
    IN
    /\ driver = "hmp2020" /\ k \in scope
    /\ IF ~simulate
       THEN LET cmds == Select(index) \o
                        (IF get_bool_str(value) = "1"
                         THEN <<"OUTP:SEL %d", "OUTP 1">>
                         ELSE <<"OUTP:SEL %d", "OUTP 0">>) IN
            \E tf \in 0 .. Len(cmds) :
              Transact("set", k, index, <<value>>, cmds, tf,
                       WithValue(val, k, index, value), newvalid, <<>>)
       ELSE Local("set", k, index, <<value>>, WithValue(val, k, index, value),
                  newvalid, <<>>)
    /\ UNCHANGED others

\* The range check without the branch for a negative maximum.
VoltageOutOfRangePositiveOnly(index, value) ==
    value < 0 \/ value > output_spec[index + 1].voltage_max

VoltageOutOfRange(index, value) ==
    IF output_spec[index + 1].voltage_max >= 0
    THEN value < 0 \/ value > output_spec[index + 1].voltage_max
    ELSE value > 0 \/ value < output_spec[index + 1].voltage_max

\* The voltage setter with the channel selected before the range check.
set_output_voltage_level_select_first(index, value) ==
    LET k == "output_voltage_level"
        pre == IF simulate THEN <<>> ELSE Select(index)
    IN
    /\ driver = "hmp2020" /\ k \in scope
    /\ IF ~HasSpec(index)
       THEN /\ call' = Call("set", k, index, <<value>>, "IndexError", <<>>, pre)
            /\ dev_sel' = Selected(dev_sel, pre)
            /\ UNCHANGED <<val, valid>>
       ELSE IF VoltageOutOfRange(index, value)
       THEN /\ call' = Call("set", k, index, <<value>>, "OutOfRange", <<>>, pre)
            /\ dev_sel' = Selected(dev_sel, pre)
            /\ UNCHANGED <<val, valid>>
       ELSE IF ~simulate
       THEN LET cmds == pre \o <<"VOLT " \o Fmt2(value)>> IN
            \E tf \in 0 .. Len(cmds) :
              Transact("set", k, index, <<value>>, cmds, tf,
                       WithValue(val, k, index, value),
                       set_cache_valid(valid, TRUE, k, index), <<>>)
       ELSE Local("set", k, index, <<value>>, WithValue(val, k, index, value),
                  set_cache_valid(valid, TRUE, k, index), <<>>)
    /\ UNCHANGED others

hmp2020_set_output_voltage_level(index, value) ==
    LET k == "output_voltage_level" IN
    /\ driver = "hmp2020" /\ k \in scope
    /\ IF ~HasSpec(index)
       THEN Raise("set", k, index, <<value>>, "IndexError")
       ELSE IF VoltageOutOfRange(index, value)
       THEN Raise("set", k, index, <<value>>, "OutOfRange")
       ELSE IF ~simulate
       THEN LET cmds == Select(index) \o <<"VOLT " \o Fmt2(value)>> IN
            \E tf \in 0 .. Len(cmds) :
              Transact("set", k, index, <<value>>, cmds, tf,
                       WithValue(val, k, index, value),
                       set_cache_valid(valid, TRUE, k, index), <<>>)
       ELSE Local("set", k, index, <<value>>, WithValue(val, k, index, value),
                  set_cache_valid(valid, TRUE, k, index), <<>>)
    /\ UNCHANGED others

hmp2020_get_output_ovp_enabled(index) ==
    LET k == "output_ovp_enabled" IN
    /\ driver = "hmp2020" /\ k \in scope
    /\ IF ~simulate /\ ~get_cache_valid(k, index)
       THEN \E resp \in BoolReplies :
            LET cmds == Select(index) \o <<"VOLTage:PROTection:TRIPped?">> IN
            \E tf \in 0 .. Len(cmds) :
              Transact("get", k, index, <<>>, cmds, tf,
                       WithValue(val, k, index, resp = get_bool_str(TRUE)),
                       set_cache_valid(valid, TRUE, k, index),
                       <<resp = get_bool_str(TRUE)>>)
       ELSE Local("get", k, index, <<>>, val, valid, <<val[k][index]>>)
    /\ UNCHANGED others

hmp2020_set_output_ovp_enabled(index, value) ==
    LET k == "output_ovp_enabled" IN
    /\ driver = "hmp2020" /\ k \in scope
    /\ IF ~simulate
       THEN LET cmds == Select(index) \o
                        (IF get_bool_str(value) = "1"
                         THEN <<"VOLTage:PROTection:MODE PROT">>
                         ELSE <<"VOLTage:PROTection:MODE MEAS">>) IN
            \E tf \in 0 .. Len(cmds) :
              Transact("set", k, index, <<value>>, cmds, tf,
                       WithValue(val, k, index, value),
                       set_cache_valid(valid, TRUE, k, index), <<>>)
       ELSE Local("set", k, index, <<value>>, WithValue(val, k, index, value),
                  set_cache_valid(valid, TRUE, k, index), <<>>)
    /\ UNCHANGED others

----------------------------------------------------------------------------
(* rigolDG1022Z: output and standard-function attributes *)

\* "%d" % (index+1)
Ch(index) == ToString(index + 1)

RECURSIVE Pow10(_)
Pow10(n) == IF n = 0 THEN 1 ELSE 10 * Pow10(n - 1)

RECURSIVE Exp10(_)
\* The decimal exponent of a positive integer: its number of digits less one.
Exp10(a) == IF a < 10 THEN 0 ELSE 1 + Exp10(a \div 10)

RECURSIVE DigitsOf(_, _)
\* The last n decimal digits of m, zero padded.
DigitsOf(m, n) ==
    IF n = 0 THEN "" ELSE DigitsOf(m \div 10, n - 1) \o Digit(m % 10)

\* "%e" % value for a positive value a, in thousandths, of at most seven
\* significant digits (no rounding of the mantissa).
FmtEAbs(a) ==
    LET e == Exp10(a)
        m == a * Pow10(6 - e)
        x == e - 3
    IN Digit(m \div 1000000) \o "." \o DigitsOf(m % 1000000, 6) \o "e"
         \o (IF x < 0 THEN "-" ELSE "+") \o DigitsOf(IF x < 0 THEN -x ELSE x, 2)

FmtE(v) ==
    IF v = 0 THEN "0.000000e+00"
    ELSE IF v < 0 THEN "-" \o FmtEAbs(-v) ELSE FmtEAbs(v)

\* The values a client passes to the float setters of the generator.
FloatArgs == {500, 2500}

\* A call whose transport calls are cmds and which then raises status while
\* it parses the reply: the attribute list and flags are left as they were.
TransactThenRaise(op, k, index, arg, cmds, tf, status) ==
    /\ call' = Call(op, k, index, arg,
                    IF tf = 0 THEN status ELSE "TransportFailure", <<>>,
                    IF tf = 0 THEN cmds ELSE SubSeq(cmds, 1, tf))
    /\ UNCHANGED <<val, valid>>
    /\ dev_sel' = Selected(dev_sel, IF tf = 0 THEN cmds
                                    ELSE SubSeq(cmds, 1, tf - 1))

\* The getter shape shared by the float attributes:
\*   if not simulate and not cache valid: resp = ask(query);
\*       self._<k>[index] = float(resp); set cache valid
\*   return self._<k>[index]
CachedFloatGet(k, index, query) ==
    /\ driver = "rigolDG1022Z" /\ k \in scope
    /\ IF ~simulate /\ ~get_cache_valid(k, index)
       THEN \E resp \in FloatReplies, tf \in 0 .. 1 :
              Transact("get", k, index, <<>>, <<query>>, tf,
                       WithValue(val, k, index, ParseFloat(resp)),
                       set_cache_valid(valid, TRUE, k, index),
                       <<ParseFloat(resp)>>)
       ELSE Local("get", k, index, <<>>, val, valid, <<val[k][index]>>)
    /\ UNCHANGED others

\* The setter shape with the store and the flag ahead of the write.
PlainSetStoreFirst(k, index, value, stored, cmd) ==
    /\ driver = "rigolDG1022Z" /\ k \in scope
    /\ \E tf \in (IF simulate THEN {0} ELSE 0 .. 1) :
          /\ call' = Call("set", k, index, <<value>>,
                          IF tf = 0 THEN "ok" ELSE "TransportFailure", <<>>,
                          IF simulate THEN <<>> ELSE <<cmd>>)
          /\ val' = WithValue(val, k, index, stored)
          /\ valid' = set_cache_valid(valid, TRUE, k, index)
          /\ UNCHANGED dev_sel
    /\ UNCHANGED others

\* The setter shape shared by the non-cascading attributes:
\*   if not simulate: write(cmd);  self._<k>[index] = stored; set cache valid
PlainSet(k, index, value, stored, cmd) ==
    /\ driver = "rigolDG1022Z" /\ k \in scope
    /\ IF ~simulate
       THEN \E tf \in 0 .. 1 :
              Transact("set", k, index, <<value>>, <<cmd>>, tf,
                       WithValue(val, k, index, stored),
                       set_cache_valid(valid, TRUE, k, index), <<>>)
       ELSE Local("set", k, index, <<value>>, WithValue(val, k, index, stored),
                  set_cache_valid(valid, TRUE, k, index), <<>>)
    /\ UNCHANGED others

\* The setter shape of the cascading attributes: after the store,
\*   for k in range(self._output_count): set cache valid False, index k
\*   set cache valid, index
CascadingSet(k, index, value, cmd) ==
    LET newvalid == set_cache_valid(InvalidateColumn(valid, k, output_count),
                                    TRUE, k, index)
    IN
    /\ driver = "rigolDG1022Z" /\ k \in scope
    /\ IF ~simulate
       THEN \E tf \in 0 .. 1 :
              Transact("set", k, index, <<value>>, <<cmd>>, tf,
                       WithValue(val, k, index, value), newvalid, <<>>)
       ELSE Local("set", k, index, <<value>>, WithValue(val, k, index, value),
                  newvalid, <<>>)
    /\ UNCHANGED others

OnOffReplies == {"ON", "OFF"}

\* No cache check: the query is sent on every call that is not simulated.
rigolDG1022Z_get_output_enabled(index) ==
    LET k == "output_enabled" IN
    /\ driver = "rigolDG1022Z" /\ k \in scope
    /\ IF ~simulate
       THEN \E resp \in OnOffReplies, tf \in 0 .. 1 :
              Transact("get", k, index, <<>>,
                       <<":OUTP" \o Ch(index) \o ":state?">>, tf,
                       WithValue(val, k, index, resp = "ON"),
                       set_cache_valid(valid, TRUE, k, index),
                       <<resp = "ON">>)
       ELSE Local("get", k, index, <<>>, val, valid, <<val[k][index]>>)
    /\ UNCHANGED others

\* Marks its own cell valid and leaves the other channels' flags.
rigolDG1022Z_set_output_enabled(index, value) ==
    PlainSet("output_enabled", index, value, value,
             IF value THEN ":OUTP" \o Ch(index) \o ":state ON"
             ELSE ":OUTP" \o Ch(index) \o ":state OFF")

ImpedanceReplies == {"5.000000E+01", "7.550000E+01"}

\* int(float(resp))
IntFloat(resp) ==
    CASE resp = "5.000000E+01" -> 50000
      [] resp = "7.550000E+01" -> 75000

\* Neither the simulate flag nor the cache flag is read; no flag is set.
rigolDG1022Z_get_output_impedance(index) ==
    LET k == "output_impedance" IN
    /\ driver = "rigolDG1022Z" /\ k \in scope
    /\ \E resp \in ImpedanceReplies, tf \in 0 .. 1 :
         Transact("get", k, index, <<>>,
                  <<":OUTP" \o Ch(index) \o ":IMPedance?">>, tf,
                  WithValue(val, k, index, IntFloat(resp)), valid,
                  <<IntFloat(resp)>>)
    /\ UNCHANGED others

\* Stands for 98999999999999993426744560981400092672 (in thousandths), which
\* is beyond the integers of the model checker.
HIGH_IMPEDANCE == 2000000000

\* A client passes a number, or a string for high impedance.
ImpedanceArgs == {[isstr |-> FALSE, n |-> 75000], [isstr |-> TRUE, n |-> 0]}

\* The simulate flag is not read; no flag is set.
rigolDG1022Z_set_output_impedance(index, value) ==
    LET k == "output_impedance"
        v == IF value.isstr THEN HIGH_IMPEDANCE ELSE value.n
        text == IF value.isstr THEN "98999999999999993426744560981400092672"
                ELSE ToString(v \div 1000)
    IN
    /\ driver = "rigolDG1022Z" /\ k \in scope
    /\ \E tf \in 0 .. 1 :
         Transact("set", k, index, <<value>>,
                  <<":OUTP" \o Ch(index) \o ":IMPedance " \o text>>, tf,
                  WithValue(val, k, index, v), valid, <<>>)
    /\ UNCHANGED others

ClockReplies == {"EXT", "INT"}

rigolDG1022Z_get_output_reference_clock_source(index) ==
    LET k == "output_reference_clock_source" IN
    /\ driver = "rigolDG1022Z" /\ k \in scope
    /\ IF ~simulate /\ ~get_cache_valid(k, index)
       THEN \E resp \in ClockReplies, tf \in 0 .. 1 :
              LET value == IF resp = "EXT" THEN "external" ELSE "internal" IN
              Transact("get", k, index, <<>>,
                       <<":SYSTem:ROSCillator:SOURce?">>, tf,
                       WithValue(val, k, index, value),
                       set_cache_valid(valid, TRUE, k, index), <<value>>)
       ELSE Local("get", k, index, <<>>, val, valid, <<val[k][index]>>)
    /\ UNCHANGED others

\* fgen.SampleClockSource
SampleClockSource == {"internal", "external"}

ClockArgs == {"internal", "external", "pll"}

rigolDG1022Z_set_output_reference_clock_source(index, value) ==
    LET k == "output_reference_clock_source" IN
    IF value \notin SampleClockSource
    THEN /\ driver = "rigolDG1022Z" /\ k \in scope
         /\ Raise("set", k, index, <<value>>, "UnsupportedValue")
         /\ UNCHANGED others
    ELSE CascadingSet(k, index, value, ":SYSTem:ROSCillator:SOURce " \o value)

rigolDG1022Z_get_output_standard_waveform_amplitude(index) ==
    CachedFloatGet("output_standard_waveform_amplitude", index,
                   "SOUR" \o Ch(index) \o ":VOLT?")

rigolDG1022Z_set_output_standard_waveform_amplitude(index, value) ==
    PlainSet("output_standard_waveform_amplitude", index, value, value,
             "SOUR" \o Ch(index) \o ":VOLT " \o FmtE(value))

rigolDG1022Z_get_output_standard_waveform_dc_offset(index) ==
    CachedFloatGet("output_standard_waveform_dc_offset", index,
                   ":SOUR" \o Ch(index) \o ":VOLT:OFFS? ")

rigolDG1022Z_set_output_standard_waveform_dc_offset(index, value) ==
    PlainSet("output_standard_waveform_dc_offset", index, value, value,
             ":SOUR" \o Ch(index) \o ":VOLT:OFFS " \o FmtE(value))

rigolDG1022Z_get_output_standard_waveform_duty_cycle_high(index) ==
    CachedFloatGet("output_standard_waveform_duty_cycle_high", index,
                   ":SOUR" \o Ch(index) \o ":FUNC:PULS:DCYC? ")

\* The values a client passes to the duty-cycle setter.
DutyArgs == {25000, 45500}

\* int(value), in thousandths
IntOf(value) == (value \div 1000) * 1000

\* The command is the constant text of the source: channel 1, 45 percent.
rigolDG1022Z_set_output_standard_waveform_duty_cycle_high(index, value) ==
    PlainSet("output_standard_waveform_duty_cycle_high", index, value,
             IntOf(value), ":SOUR1:FUNC:PULS:DCYC 45 ")

rigolDG1022Z_get_output_standard_waveform_start_phase(index) ==
    CachedFloatGet("output_standard_waveform_start_phase", index,
                   ":SOUR" \o Ch(index) \o ":PHAS?")

rigolDG1022Z_set_output_standard_waveform_start_phase(index, value) ==
    PlainSet("output_standard_waveform_start_phase", index, value, value,
             ":SOUR" \o Ch(index) \o ":PHAS " \o FmtE(value))

rigolDG1022Z_get_output_standard_waveform_frequency(index) ==
    CachedFloatGet("output_standard_waveform_frequency", index,
                   "SOUR" \o Ch(index) \o ":FREQuency?")

rigolDG1022Z_set_output_standard_waveform_frequency(index, value) ==
    CascadingSet("output_standard_waveform_frequency", index, value,
                 "SOUR" \o Ch(index) \o ":FREQuency " \o FmtE(value))

StandardWaveformMapping ==
    [sine |-> "sin", square |-> "squ", ramp_up |-> "ramp", dc |-> "dc"]

\* The replies of the instrument to the function query.
FunctionReplies == {"SIN", "Squ", "RAMP", "dc", "PULS"}

\* resp.lower()
Lower(s) ==
    CASE s = "SIN" -> "sin"
      [] s = "Squ" -> "squ"
      [] s = "RAMP" -> "ramp"
      [] s = "DC" -> "dc"
      [] s = "PULS" -> "puls"
      [] s = "W0001.WFM" -> "w0001.wfm"
      [] OTHER -> s

\* [k for k,v in StandardWaveformMapping.items() if v==value]
SymbolsOf(token) ==
    {s \in DOMAIN StandardWaveformMapping : StandardWaveformMapping[s] = token}

rigolDG1022Z_get_output_standard_waveform_waveform(index) ==
    LET k == "output_standard_waveform_waveform" IN
    /\ driver = "rigolDG1022Z" /\ k \in scope
    /\ IF ~simulate /\ ~get_cache_valid(k, index)
       THEN \E resp \in FunctionReplies, tf \in 0 .. 1 :
              LET cmds == <<":SOUR" \o Ch(index) \o ":FUNC?">>
                  found == SymbolsOf(Lower(resp))
              IN
              IF tf # 0
              THEN TransactThenRaise("get", k, index, <<>>, cmds, tf,
                                     "IndexError")
              ELSE IF found = {}
              THEN /\ call' = [Call("get", k, index, <<>>, "IndexError",
                                    <<>>, cmds) EXCEPT !.reply = <<resp>>]
                   /\ UNCHANGED <<val, valid, dev_sel>>
              ELSE LET value == CHOOSE s \in found : TRUE IN
                   /\ call' = [Call("get", k, index, <<>>, "ok", <<value>>,
                                    cmds) EXCEPT !.reply = <<resp>>]
                   /\ val' = WithValue(val, k, index, value)
                   /\ valid' = set_cache_valid(valid, TRUE, k, index)
                   /\ UNCHANGED dev_sel
       ELSE Local("get", k, index, <<>>, val, valid, <<val[k][index]>>)
    /\ UNCHANGED others

WaveformArgs == {"sine", "square", "ramp_up", "dc", "triangle"}

\* The setter writing the symbol itself in place of its token.
set_output_standard_waveform_waveform_unmapped(index, value) ==
    LET k == "output_standard_waveform_waveform" IN
    IF value \notin DOMAIN StandardWaveformMapping
    THEN /\ driver = "rigolDG1022Z" /\ k \in scope
         /\ Raise("set", k, index, <<value>>, "UnsupportedValue")
         /\ UNCHANGED others
    ELSE PlainSet(k, index, value, value,
                  ":SOUR" \o Ch(index) \o ":FUNC " \o value)

rigolDG1022Z_set_output_standard_waveform_waveform(index, value) ==
    LET k == "output_standard_waveform_waveform" IN
    IF value \notin DOMAIN StandardWaveformMapping
    THEN /\ driver = "rigolDG1022Z" /\ k \in scope
         /\ Raise("set", k, index, <<value>>, "UnsupportedValue")
         /\ UNCHANGED others
    ELSE PlainSet(k, index, value, value,
                  ":SOUR" \o Ch(index) \o ":FUNC " \o StandardWaveformMapping[value])

\* The replies to ":ch<n>:amplitude?" and ":ch<n>:offset?": with the header
\* the getters split off, and without one.
HeaderReplies == {":CH:VALUE 2.500", "1.000E+01"}

HasSpace(resp) == resp = ":CH:VALUE 2.500"

\* resp.split(' ', 1)[1]
AfterSpace(resp) == CASE resp = ":CH:VALUE 2.500" -> "2.500"

ArbFloatGet(k, index, query) ==
    /\ driver = "rigolDG1022Z" /\ k \in scope
    /\ IF ~simulate /\ ~get_cache_valid(k, index)
       THEN \E resp \in HeaderReplies, tf \in 0 .. 1 :
              IF ~HasSpace(resp)
              THEN TransactThenRaise("get", k, index, <<>>, <<query>>, tf,
                                     "IndexError")
              ELSE Transact("get", k, index, <<>>, <<query>>, tf,
                            WithValue(val, k, index, ParseFloat(AfterSpace(resp))),
                            set_cache_valid(valid, TRUE, k, index),
                            <<ParseFloat(AfterSpace(resp))>>)
       ELSE Local("get", k, index, <<>>, val, valid, <<val[k][index]>>)
    /\ UNCHANGED others

rigolDG1022Z_get_output_arbitrary_gain(index) ==
    ArbFloatGet("output_arbitrary_gain", index,
                ":ch" \o Ch(index) \o ":amplitude?")

rigolDG1022Z_set_output_arbitrary_gain(index, value) ==
    PlainSet("output_arbitrary_gain", index, value, value,
             ":ch" \o Ch(index) \o ":amplitude " \o FmtE(value))

rigolDG1022Z_get_output_arbitrary_offset(index) ==
    ArbFloatGet("output_arbitrary_offset", index,
                ":ch" \o Ch(index) \o ":offset?")

rigolDG1022Z_set_output_arbitrary_offset(index, value) ==
    PlainSet("output_arbitrary_offset", index, value, value,
             ":ch" \o Ch(index) \o ":offset " \o FmtE(value))

----------------------------------------------------------------------------
(* rigolDG1022Z: the waveform catalog, waveform upload and assignment *)

\* "w%04d.wfm" % n, tabulated for the numbers the counter takes.
HandleNames == [m \in 1 .. MaxHandle + 1 |-> "w" \o DigitsOf(m, 4) \o ".wfm"]

Handle(m) == HandleNames[m]

\* The catalog field of stored waveform m as the instrument sends it.
RawNames == [m \in 1 .. MaxHandle |-> "\"W" \o DigitsOf(m, 4) \o ".WFM\""]

RawName(m) == RawNames[m]

\* field.lower().strip('"') on the fields the instrument sends.
Clean(field) ==
    IF \E m \in 1 .. MaxHandle : field = RawName(m)
    THEN Handle(CHOOSE m \in 1 .. MaxHandle : field = RawName(m))
    ELSE IF field = "\"\"" THEN ""
    ELSE IF field = "\"WFM\"" THEN "wfm"
    ELSE field

RECURSIVE CatalogFields(_, _)
\* The name, type and size fields of the stored waveforms m .. MaxHandle.
CatalogFields(devcat, m) ==
    IF m > MaxHandle THEN <<>>
    ELSE (IF m \in devcat THEN <<RawName(m), "\"WFM\"", "1024">> ELSE <<>>)
         \o CatalogFields(devcat, m + 1)

\* The comma-separated fields of the reply to the catalog query of an
\* instrument that stores the waveforms devcat: a count, then three fields
\* per stored waveform.  Of an empty storage the instrument sends the count
\* alone (bare) or the count and one empty field.
CatalogReply(devcat, bare) ==
    IF devcat = {}
    THEN IF bare THEN <<"0">> ELSE <<"0", "\"\"">>
    ELSE <<ToString(Cardinality(devcat))>> \o CatalogFields(devcat, 1)

\* What the instrument stores when a call reads its catalog: storage changes
\* out of band, so every read sees any of these.
Storages == SUBSET (1 .. MaxStored)

\* self._catalog = [l[i:i+3] for i in range(0, len(l), 3)]
\* self._catalog_names = [l[0] for l in self._catalog]
NamesOf(l) == [j \in 1 .. ((Len(l) + 2) \div 3) |-> Clean(l[3 * (j - 1) + 1])]

CATALOG_QUERY == ":MEMory:STATe:CATalog?"

\* _load_catalog, the instrument answering reply: the names it leaves in
\* self._catalog_names, how it ends and what it sent.  fail: the query raises.
\* The catalog read with a failure of the query taken for an empty catalog.
load_catalog_swallow(reply, fail) ==
    IF simulate
    THEN [names |-> <<>>, status |-> "ok", sent |-> <<>>, reply |-> <<>>]
    ELSE IF fail
    THEN [names |-> <<>>, status |-> "ok", sent |-> <<CATALOG_QUERY>>,
          reply |-> <<>>]
    ELSE IF Len(reply) < 2
    THEN [names |-> <<>>, status |-> "IndexError", sent |-> <<CATALOG_QUERY>>,
          reply |-> reply]
    ELSE [names |-> NamesOf(Tail(reply)), status |-> "ok",
          sent |-> <<CATALOG_QUERY>>, reply |-> reply]

load_catalog(reply, fail) ==
    IF simulate
    THEN [names |-> <<>>, status |-> "ok", sent |-> <<>>, reply |-> <<>>]
    ELSE IF fail
    THEN [names |-> <<>>, status |-> "TransportFailure",
          sent |-> <<CATALOG_QUERY>>, reply |-> <<>>]
    ELSE IF Len(reply) < 2
    THEN [names |-> <<>>, status |-> "IndexError", sent |-> <<CATALOG_QUERY>>,
          reply |-> reply]
    ELSE [names |-> NamesOf(Tail(reply)), status |-> "ok",
          sent |-> <<CATALOG_QUERY>>, reply |-> reply]

InSeq(x, s) == \E j \in 1 .. Len(s) : s[j] = x

\* The search for an unused handle started at w0001.wfm on every call.
NextFreeFromOne(m, names) ==
    CHOOSE j \in 1 .. MaxHandle + 1 :
        /\ ~InSeq(Handle(j), names)
        /\ \A i \in 1 .. j - 1 : InSeq(Handle(i), names)

\* The search with the counter advanced once before the first probe.
NextFreeSkipFirst(m, names) ==
    IF m + 2 > MaxHandle + 1 THEN MaxHandle + 1
    ELSE CHOOSE j \in (m + 2) .. (MaxHandle + 1) :
            /\ ~InSeq(Handle(j), names)
            /\ \A i \in (m + 2) .. (j - 1) : InSeq(Handle(i), names)

RECURSIVE NextFree(_, _)
\* while not have_handle: n += 1; have_handle = handle not in catalog_names
NextFree(m, names) ==
    IF ~InSeq(Handle(m + 1), names) THEN m + 1 ELSE NextFree(m + 1, names)

\* self._arbitrary_waveform_quantum
QUANTUM == 8

\* The header commands of an upload to handle, in the order of the source.
\* The header with the byte width and the byte order exchanged.
HeaderCommandsSwapped(handle, xincr) ==
    <<":data:destination \"" \o handle \o "\"",
      ":wfmpre:bit_nr 12",
      ":wfmpre:bn_fmt rp",
      ":wfmpre:byt_or msb",
      ":wfmpre:byt_nr 2",
      ":wfmpre:encdg bin",
      ":wfmpre:pt_fmt y",
      ":wfmpre:yzero 0",
      ":wfmpre:ymult 4.882812e-04",
      ":wfmpre:xincr " \o xincr>>

HeaderCommands(handle, xincr) ==
    <<":data:destination \"" \o handle \o "\"",
      ":wfmpre:bit_nr 12",
      ":wfmpre:bn_fmt rp",
      ":wfmpre:byt_nr 2",
      ":wfmpre:byt_or msb",
      ":wfmpre:encdg bin",
      ":wfmpre:pt_fmt y",
      ":wfmpre:yzero 0",
      ":wfmpre:ymult 4.882812e-04",
      ":wfmpre:xincr " \o xincr>>

CURVE == ":curve "

\* xincr = ivi.rms(diff(x)) of the synthesized time axis, as "%e" prints it:
\* the sample spacing 1e-7, and not a number when the axis has no interval.
XIncr(data) == IF Len(data) < 2 THEN "nan" ELSE "1.000000e-07"

\* One sample f, in thousandths, to its code:
\*   clip to [-1, 1]; f = (f + 1) / 2; int(f * ((1 << 12) - 2) + 0.5) & 0xfffff
\* No clipping: the sample is scaled as it comes.
NoClip(f) == f

\* if f > 1.0: f = 1.0; if f < -1.0: f = -1.0
Clip(f) == IF f > 1000 THEN 1000 ELSE IF f < -1000 THEN -1000 ELSE f

\* f = (f + 1) / 2; int(f * ((1 << 12) - 2) + 0.5), int() truncating towards 0
Scale(c) ==
    LET twice == (c + 1000) * 4094 + 1000 IN
    IF twice >= 0 THEN twice \div 2000 ELSE -((-twice) \div 2000)

\* The scaling to the full 12 bits: (1 << 12) - 1 in place of (1 << 12) - 2.
QuantizeFullScale(f) ==
    (((Clip(f) + 1000) * 4095 + 1000) \div 2000) % 1048576

Quantize(f) == Scale(Clip(f)) % 1048576

\* raw_data: struct.pack('>H', i) of every sample, most significant byte first
Pack(y) ==
    [j \in 1 .. 2 * Len(y) |->
        IF j % 2 = 1 THEN Quantize(y[(j + 1) \div 2]) \div 256
        ELSE Quantize(y[j \div 2]) % 256]

\* The sample values the quantizer is applied to one at a time.
SampleValues == (-MaxSample) .. MaxSample

\* The sample values of the sequences a client uploads.
Samples == <<-1500, -1000, -400, 0, 400, 1000, 1500, 1>>

\* A sample sequence of the given length.
DataOf(len) == [j \in 1 .. len |-> Samples[((j - 1) % Len(Samples)) + 1]]

\* The lengths of the sequences a client uploads.
DataLengths == {0, QUANTUM + 2, 2 * QUANTUM}

\* The containers a client passes samples of the given number in: a list of
\* floats, and for no samples a one-dimensional array as well.
DataKinds(len) == IF len = 0 THEN {"list", "ndarray"} ELSE {"list"}

\* Where the transport raises during an upload, if it does.
FailPoints == {"none", "catalog", "destination", "curve"}

\* The calling instance before an upload: nothing sent, nothing returned.
NoUpload ==
    [n |-> arbitrary_waveform_n, names |-> catalog_names,
     status |-> "ok", ret |-> <<>>, sent |-> <<>>, block |-> <<>>,
     reply |-> <<>>]

\* _arbitrary_waveform_create from the catalog read on: the catalog read,
\* the search for an unused handle, the header and the block raw_data, the
\* packed codes of data.
upload(data, raw_data, reply, fail) ==
    LET cat == load_catalog(reply, fail = "catalog")
        read == [NoUpload EXCEPT !.names = cat.names, !.sent = cat.sent,
                                 !.reply = cat.reply]
    IN
    IF cat.status # "ok"
    THEN [read EXCEPT !.status = cat.status]
    ELSE
    LET m == NextFree(arbitrary_waveform_n, cat.names)
        header == HeaderCommands(Handle(m), XIncr(data))
    IN
    IF fail = "destination"
    THEN [read EXCEPT !.n = m, !.status = "TransportFailure",
                      !.sent = cat.sent \o SubSeq(header, 1, 1)]
    ELSE IF fail = "curve"
    THEN [read EXCEPT !.n = m, !.status = "TransportFailure",
                      !.sent = cat.sent \o header \o <<CURVE>>,
                      !.block = raw_data]
    ELSE [read EXCEPT !.n = m, !.ret = <<Handle(m)>>,
                      !.sent = cat.sent \o header \o <<CURVE>>,
                      !.block = raw_data]

\* The upload with the length checked once the handle is taken.
arbitrary_waveform_create_late_check(data, kind, raw_data, reply, fail) ==
    IF kind = "list" /\ data = <<>>
    THEN [NoUpload EXCEPT !.status = "IndexError"]
    ELSE IF Len(data) % QUANTUM # 0
    THEN LET cat == load_catalog(reply, fail = "catalog") IN
         IF cat.status # "ok"
         THEN [NoUpload EXCEPT !.names = cat.names, !.status = cat.status,
                               !.sent = cat.sent]
         ELSE [NoUpload EXCEPT !.n = NextFree(arbitrary_waveform_n, cat.names),
                               !.names = cat.names, !.sent = cat.sent,
                               !.status = "UnsupportedValue"]
    ELSE upload(data, raw_data, reply, fail)

\* _arbitrary_waveform_create(data) for a flat list of floats or a
\* one-dimensional array, the instrument answering reply to the catalog
\* query: the counter and catalog names it leaves, how it ends, the handle it
\* returns, and the commands and the block it sent.  data[0] of an empty list
\* raises before the length is checked; an empty array has no such test.
arbitrary_waveform_create(data, kind, raw_data, reply, fail) ==
    IF kind = "list" /\ data = <<>>
    THEN [NoUpload EXCEPT !.status = "IndexError"]
    ELSE IF Len(data) % QUANTUM # 0
    THEN [NoUpload EXCEPT !.status = "UnsupportedValue"]
    ELSE upload(data, raw_data, reply, fail)

\* The names a client passes to the waveform assignment.
NameArgs == {"w0001.wfm", "W0002.WFM", "w0001.txt"}

\* str(value).lower()
LowerName(s) == IF s = "W0002.WFM" THEN "w0002.wfm" ELSE s

\* value.split('.').pop()
Extension(s) == IF s = "w0001.txt" THEN "txt" ELSE "wfm"

\* The assignment without the test that the instrument stores the name.
set_output_arbitrary_waveform_unlisted(index, value, names0, reply, fail) ==
    LET v == LowerName(value)
        base == [names |-> names0, status |-> "ok", sent |-> <<>>,
                 stored |-> FALSE, value |-> v, reply |-> <<>>]
    IN
    IF Extension(v) # "wfm"
    THEN [base EXCEPT !.status = "UnsupportedValue"]
    ELSE
    LET cat == load_catalog(reply, fail = "catalog")
        cmd == ":ch" \o Ch(index) \o ":waveform \"" \o v \o "\""
        read == [base EXCEPT !.names = cat.names, !.sent = cat.sent,
                             !.reply = cat.reply]
    IN
    IF cat.status # "ok"
    THEN [read EXCEPT !.status = cat.status]
    ELSE IF simulate
    THEN [read EXCEPT !.stored = TRUE]
    ELSE IF fail = "assign"
    THEN [read EXCEPT !.status = "TransportFailure",
                      !.sent = cat.sent \o <<cmd>>]
    ELSE [read EXCEPT !.sent = cat.sent \o <<cmd>>, !.stored = TRUE]

\* _set_output_arbitrary_waveform(index, value), the instrument answering
\* reply to the catalog query: the catalog names it leaves (names0 when it
\* does not read the catalog), how it ends, what it sent and whether it
\* stored the lower-cased value.  fail: "catalog", "assign" or "none".
set_output_arbitrary_waveform(index, value, names0, reply, fail) ==
    LET v == LowerName(value)
        base == [names |-> names0, status |-> "ok", sent |-> <<>>,
                 stored |-> FALSE, value |-> v, reply |-> <<>>]
    IN
    IF Extension(v) # "wfm"
    THEN [base EXCEPT !.status = "UnsupportedValue"]
    ELSE
    LET cat == load_catalog(reply, fail = "catalog")
        cmd == ":ch" \o Ch(index) \o ":waveform \"" \o v \o "\""
        read == [base EXCEPT !.names = cat.names, !.sent = cat.sent,
                             !.reply = cat.reply]
    IN
    IF cat.status # "ok"
    THEN [read EXCEPT !.status = cat.status]
    ELSE IF ~InSeq(v, cat.names)
    THEN [read EXCEPT !.status = "UnsupportedValue"]
    ELSE IF simulate
    THEN [read EXCEPT !.stored = TRUE]
    ELSE IF fail = "assign"
    THEN [read EXCEPT !.status = "TransportFailure",
                      !.sent = cat.sent \o <<cmd>>]
    ELSE [read EXCEPT !.sent = cat.sent \o <<cmd>>, !.stored = TRUE]

\* The replies to ":ch<n>:waveform?": with the header the getter splits off,
\* and without one.
NameReplies == {":CH:WAVEFORM \"W0001.WFM\"", "\"W0002.WFM\""}

rigolDG1022Z_get_output_arbitrary_waveform(index) ==
    LET k == "output_arbitrary_waveform" IN
    /\ driver = "rigolDG1022Z" /\ k \in scope
    /\ IF ~simulate /\ ~get_cache_valid(k, index)
       THEN \E resp \in NameReplies, tf \in 0 .. 1 :
              LET cmds == <<":ch" \o Ch(index) \o ":waveform?">> IN
              IF resp # ":CH:WAVEFORM \"W0001.WFM\""
              THEN TransactThenRaise("get", k, index, <<>>, cmds, tf,
                                     "IndexError")
              ELSE Transact("get", k, index, <<>>, cmds, tf,
                            WithValue(val, k, index, Clean(RawName(1))),
                            set_cache_valid(valid, TRUE, k, index),
                            <<Clean(RawName(1))>>)
       ELSE Local("get", k, index, <<>>, val, valid, <<val[k][index]>>)
    /\ UNCHANGED others

\* The inputs of a call that reads the catalog: what the instrument stores,
\* and the shape of its reply when it stores nothing.
CatalogInputs ==
    {in \in [devcat : Storages, bare : BOOLEAN] : in.bare => in.devcat = {}}

\* The inputs of a call: those above when the call gets as far as the
\* catalog, and one placeholder when it raises before.
CatalogInputsOf(reads) ==
    IF reads THEN CatalogInputs ELSE {[devcat |-> {}, bare |-> FALSE]}

\* The points where the transport fails, likewise; a simulated instance
\* reads no catalog and assigns no name.
FailPointsOf(reads, points) ==
    IF ~reads THEN {"none"}
    ELSE IF simulate THEN points \ {"catalog", "catalog2", "assign"}
    ELSE points

\* An upload of data gets as far as the catalog.
UploadReads(data, kind) ==
    (kind = "ndarray" \/ data # <<>>) /\ Len(data) % QUANTUM = 0

\* No validity flag is set.
rigolDG1022Z_set_output_arbitrary_waveform(index, value) ==
    LET k == "output_arbitrary_waveform" IN
    /\ driver = "rigolDG1022Z" /\ k \in scope
    /\ \E fail \in FailPointsOf(Extension(LowerName(value)) = "wfm",
                                {"none", "catalog", "assign"}) :
       \E in \in CatalogInputsOf(Extension(LowerName(value)) = "wfm"
                                 /\ ~simulate /\ fail # "catalog") :
       \E r \in {set_output_arbitrary_waveform(index, value, catalog_names,
                     CatalogReply(in.devcat, in.bare), fail)} :
            /\ call' = [Call("set", k, index, <<value>>, r.status, <<>>,
                             r.sent) EXCEPT !.reply = r.reply]
            /\ val' = IF r.stored THEN WithValue(val, k, index, r.value) ELSE val
            /\ catalog_names' = r.names
    /\ UNCHANGED <<session, valid, dev_sel, arbitrary_waveform_n, returned>>

rigolDG1022Z_arbitrary_waveform_create(data, kind) ==
    /\ driver = "rigolDG1022Z" /\ "arbitrary_waveform" \in scope
    /\ \E raw_data \in {Pack(data)},
          fail \in FailPointsOf(UploadReads(data, kind), FailPoints) :
       \E in \in CatalogInputsOf(UploadReads(data, kind)
                                 /\ ~simulate /\ fail # "catalog") :
       \E r \in {arbitrary_waveform_create(data, kind, raw_data,
                     CatalogReply(in.devcat, in.bare), fail)} :
            /\ r.n <= MaxHandle
            /\ call' = [Call("create", "none", 0, <<data, kind>>, r.status, r.ret,
                             r.sent)
                        EXCEPT !.block = r.block, !.reply = r.reply]
            /\ arbitrary_waveform_n' = r.n
            /\ catalog_names' = r.names
            /\ returned' = returned \cup {r.ret[j] : j \in 1 .. Len(r.ret)}
    /\ UNCHANGED <<session, val, valid, dev_sel>>

\* handle = self._arbitrary_waveform_create(data)
\* self._set_output_arbitrary_waveform(index, handle); return handle
\* listed: the instrument lists the uploaded waveform when the assignment
\* reads the catalog.
rigolDG1022Z_arbitrary_waveform_create_channel_waveform(index, data, kind) ==
    LET k == "output_arbitrary_waveform" IN
    /\ driver = "rigolDG1022Z" /\ "arbitrary_waveform" \in scope
    /\ \E raw_data \in {Pack(data)},
          fail \in FailPointsOf(UploadReads(data, kind),
                                {"none", "curve", "catalog2", "assign"}) :
       \E in \in CatalogInputsOf(UploadReads(data, kind) /\ ~simulate),
          listed \in (IF UploadReads(data, kind) /\ ~simulate
                         /\ fail \in {"none", "assign"}
                      THEN BOOLEAN ELSE {FALSE}) :
       \E r \in {arbitrary_waveform_create(data, kind, raw_data,
                     CatalogReply(in.devcat, in.bare),
                     IF fail = "curve" THEN fail ELSE "none")} :
            /\ r.n <= MaxHandle
            /\ arbitrary_waveform_n' = r.n
            /\ IF r.status # "ok"
               THEN /\ call' = [Call("create_channel", k, index, <<data, kind>>,
                                     r.status, <<>>, r.sent)
                                EXCEPT !.block = r.block, !.reply = r.reply]
                    /\ catalog_names' = r.names
                    /\ val' = val
                    /\ returned' = returned
               ELSE \E s \in {set_output_arbitrary_waveform(index, r.ret[1],
                                 r.names,
                                 CatalogReply(IF listed
                                              THEN in.devcat \cup {r.n}
                                              ELSE in.devcat, in.bare),
                                 IF fail = "catalog2" THEN "catalog" ELSE fail)} :
                       /\ call' = [Call("create_channel", k, index, <<data, kind>>,
                                        s.status,
                                        IF s.status = "ok" THEN r.ret ELSE <<>>,
                                        r.sent \o s.sent)
                                   EXCEPT !.block = r.block,
                                          !.reply = r.reply]
                       /\ catalog_names' = s.names
                       /\ returned' = IF s.status = "ok"
                                      THEN returned \cup {r.ret[1]}
                                      ELSE returned
                       /\ val' = IF s.stored
                                 THEN WithValue(val, k, index, s.value) ELSE val
    /\ UNCHANGED <<session, valid, dev_sel>>

----------------------------------------------------------------------------
(* The session. *)

\* The waveform features: the assignment attribute and the upload calls.
WaveformFeatures == {"output_arbitrary_waveform", "arbitrary_waveform"}

\* A session uses up to MaxKeys attribute keys, or one waveform feature.
Scopes(keys) ==
    {s \in SUBSET (keys \ WaveformFeatures) :
        1 <= Cardinality(s) /\ Cardinality(s) <= MaxKeys}
    \cup (IF WaveformFeatures \cap keys = {} THEN {}
          ELSE {{f} : f \in WaveformFeatures})

NoCall == Call("none", "none", 0, <<>>, "ok", <<>>, <<>>)

\* hmp2020.__init__; the handlers are checked for the output counts and range
\* tables of the family, hmp2020's own being 2 and HMP2020_SPEC.
InitHmp ==
    /\ driver = "hmp2020"
    /\ output_count \in HmpOutputCounts
    /\ output_spec \in HmpSpecs
    /\ scope \in Scopes(HmpKeys)

\* rigolDG1022Z.__init__
InitRigol ==
    /\ driver = "rigolDG1022Z"
    /\ output_count = 2
    /\ output_spec = <<>>
    /\ scope \in Scopes(RigolKeys)

Init ==
    /\ simulate \in BOOLEAN
    /\ (InitHmp \/ InitRigol)
    /\ val = [k \in Keys |-> [i \in Channels |-> InitialValue(k)]]
    /\ valid = [k \in Keys |-> [i \in Channels |-> FALSE]]
    /\ arbitrary_waveform_n = 0
    /\ catalog_names = <<>>
    /\ returned = {}
    /\ dev_sel = 1
    /\ call = NoCall
    /\ threads = [t \in {"A", "B"} |->
                    [pc |-> "idle", op |-> "none", index |-> 0, value |-> 0]]
    /\ mutex = "unused"
    /\ dev_volt = [n \in 1 .. 2 |-> 0]

HmpGetCurrent == \E i \in Channels : hmp2020_get_output_current_limit(i)
HmpSetCurrent == driver = "hmp2020" /\ \E i \in Channels, v \in CurrentArgs : hmp2020_set_output_current_limit(i, v)
HmpGetVoltage == \E i \in Channels : hmp2020_get_output_voltage_level(i)
HmpSetVoltage == driver = "hmp2020" /\ \E i \in Channels, v \in VoltageArgs : hmp2020_set_output_voltage_level(i, v)
HmpSetEnabled == \E i \in Channels, v \in BOOLEAN : hmp2020_set_output_enabled(i, v)
HmpGetOvp == \E i \in Channels : hmp2020_get_output_ovp_enabled(i)
HmpSetOvp == \E i \in Channels, v \in BOOLEAN : hmp2020_set_output_ovp_enabled(i, v)

RigolGetEnabled == \E i \in Channels : rigolDG1022Z_get_output_enabled(i)
RigolSetEnabled == \E i \in Channels, v \in BOOLEAN : rigolDG1022Z_set_output_enabled(i, v)
RigolGetImpedance == \E i \in Channels : rigolDG1022Z_get_output_impedance(i)
RigolSetImpedance == \E i \in Channels, v \in ImpedanceArgs : rigolDG1022Z_set_output_impedance(i, v)
RigolGetClock == \E i \in Channels : rigolDG1022Z_get_output_reference_clock_source(i)
RigolSetClock == \E i \in Channels, v \in ClockArgs : rigolDG1022Z_set_output_reference_clock_source(i, v)
RigolGetAmplitude == \E i \in Channels : rigolDG1022Z_get_output_standard_waveform_amplitude(i)
RigolSetAmplitude == \E i \in Channels, v \in FloatArgs : rigolDG1022Z_set_output_standard_waveform_amplitude(i, v)
RigolGetOffset == \E i \in Channels : rigolDG1022Z_get_output_standard_waveform_dc_offset(i)
RigolSetOffset == \E i \in Channels, v \in FloatArgs : rigolDG1022Z_set_output_standard_waveform_dc_offset(i, v)
RigolGetDuty == \E i \in Channels : rigolDG1022Z_get_output_standard_waveform_duty_cycle_high(i)
RigolSetDuty == \E i \in Channels, v \in DutyArgs : rigolDG1022Z_set_output_standard_waveform_duty_cycle_high(i, v)
RigolGetPhase == \E i \in Channels : rigolDG1022Z_get_output_standard_waveform_start_phase(i)
RigolSetPhase == \E i \in Channels, v \in FloatArgs : rigolDG1022Z_set_output_standard_waveform_start_phase(i, v)
RigolGetFrequency == \E i \in Channels : rigolDG1022Z_get_output_standard_waveform_frequency(i)
RigolSetFrequency == \E i \in Channels, v \in FloatArgs : rigolDG1022Z_set_output_standard_waveform_frequency(i, v)
RigolGetFunction == \E i \in Channels : rigolDG1022Z_get_output_standard_waveform_waveform(i)
RigolSetFunction == \E i \in Channels, v \in WaveformArgs : rigolDG1022Z_set_output_standard_waveform_waveform(i, v)
RigolGetGain == \E i \in Channels : rigolDG1022Z_get_output_arbitrary_gain(i)
RigolSetGain == \E i \in Channels, v \in FloatArgs : rigolDG1022Z_set_output_arbitrary_gain(i, v)
RigolGetArbOffset == \E i \in Channels : rigolDG1022Z_get_output_arbitrary_offset(i)
RigolSetArbOffset == \E i \in Channels, v \in FloatArgs : rigolDG1022Z_set_output_arbitrary_offset(i, v)
RigolGetArbWaveform == \E i \in Channels : rigolDG1022Z_get_output_arbitrary_waveform(i)
RigolSetArbWaveform == \E i \in Channels, v \in NameArgs : rigolDG1022Z_set_output_arbitrary_waveform(i, v)
RigolCreate == \E len \in DataLengths : \E kind \in DataKinds(len) : rigolDG1022Z_arbitrary_waveform_create(DataOf(len), kind)
RigolCreateChannel == \E i \in Channels, len \in DataLengths : \E kind \in DataKinds(len) : rigolDG1022Z_arbitrary_waveform_create_channel_waveform(i, DataOf(len), kind)

Next ==
    \/ HmpGetCurrent
    \/ HmpSetCurrent
    \/ HmpGetVoltage
    \/ HmpSetVoltage
    \/ HmpSetEnabled
    \/ HmpGetOvp
    \/ HmpSetOvp
    \/ RigolGetEnabled
    \/ RigolSetEnabled
    \/ RigolGetImpedance
    \/ RigolSetImpedance
    \/ RigolGetClock
    \/ RigolSetClock
    \/ RigolGetAmplitude
    \/ RigolSetAmplitude
    \/ RigolGetOffset
    \/ RigolSetOffset
    \/ RigolGetDuty
    \/ RigolSetDuty
    \/ RigolGetPhase
    \/ RigolSetPhase
    \/ RigolGetFrequency
    \/ RigolSetFrequency
    \/ RigolGetFunction
    \/ RigolSetFunction
    \/ RigolGetGain
    \/ RigolSetGain
    \/ RigolGetArbOffset
    \/ RigolSetArbOffset
    \/ RigolGetArbWaveform
    \/ RigolSetArbWaveform
    \/ RigolCreate
    \/ RigolCreateChannel

Spec == Init /\ [][Next]_vars

\* The sessions on an hmp2020 and what they call.
HmpInit == Init /\ driver = "hmp2020"

HmpNext ==
    \/ HmpGetCurrent
    \/ HmpSetCurrent
    \/ HmpGetVoltage
    \/ HmpSetVoltage
    \/ HmpSetEnabled
    \/ HmpGetOvp
    \/ HmpSetOvp

HmpSpec == HmpInit /\ [][HmpNext]_vars

\* The sessions on a rigolDG1022Z that use its waveform features, and what
\* they call.
WaveformInit == Init /\ driver = "rigolDG1022Z" /\ scope \subseteq WaveformFeatures

WaveformNext ==
    \/ RigolGetArbWaveform
    \/ RigolSetArbWaveform
    \/ RigolCreate
    \/ RigolCreateChannel

WaveformSpec == WaveformInit /\ [][WaveformNext]_vars

\* utility_reset without the invalidation: the flags survive the reset.
utility_reset_keep_flags ==
    /\ driver = "rigolDG1022Z"
    /\ IF ~simulate
       THEN \E tf \in 0 .. 1 :
              Transact("reset", "none", 0, <<>>, <<"*RST">>, tf, val, valid,
                       <<>>)
       ELSE Local("reset", "none", 0, <<>>, val, valid, <<>>)
    /\ UNCHANGED others

\* _utility_reset: outside simulation, write *RST and then invalidate every
\* attribute (the flags are cleared, the values stay); in simulation, nothing.
rigolDG1022Z_utility_reset ==
    /\ driver = "rigolDG1022Z"
    /\ IF ~simulate
       THEN \E tf \in 0 .. 1 :
              Transact("reset", "none", 0, <<>>, <<"*RST">>, tf, val,
                       [k \in Keys |-> [i \in Channels |-> FALSE]], <<>>)
       ELSE Local("reset", "none", 0, <<>>, val, valid, <<>>)
    /\ UNCHANGED others

\* An entry that never takes the lock.
hmp2020_enter_unlocked(t, op, index, value) ==
    LET k == "output_voltage_level" IN
    /\ driver = "hmp2020" /\ k \in scope /\ ~simulate
    /\ threads[t].pc = "idle"
    /\ mutex \in {"unused", "free"}
    /\ IF op = "set" /\ ~HasSpec(index)
       THEN Raise("set", k, index, <<value>>, "IndexError")
            /\ UNCHANGED <<threads, mutex>>
       ELSE IF op = "set" /\ VoltageOutOfRange(index, value)
       THEN Raise("set", k, index, <<value>>, "OutOfRange")
            /\ UNCHANGED <<threads, mutex>>
       ELSE IF op = "get" /\ get_cache_valid(k, index)
       THEN Local("get", k, index, <<>>, val, valid, <<val[k][index]>>)
            /\ UNCHANGED <<threads, mutex>>
       ELSE /\ threads' = [threads EXCEPT ![t] =
                              [pc |-> IF output_count > 1 THEN "select"
                                      ELSE "command",
                               op |-> op, index |-> index, value |-> value]]
            /\ mutex' = mutex
            /\ UNCHANGED <<call, val, valid, dev_sel>>
    /\ UNCHANGED <<driver, simulate, output_count, output_spec, scope,
                   arbitrary_waveform_n, catalog_names, returned, dev_volt>>

\* Caller t enters _get_output_voltage_level or _set_output_voltage_level:
\* the index is resolved and the value validated (set), the flag is read
\* (get).  A call that goes to the wire proceeds to its first write; where a
\* lock is in use the caller takes it here and waits while another holds it.
hmp2020_enter(t, op, index, value) ==
    LET k == "output_voltage_level" IN
    /\ driver = "hmp2020" /\ k \in scope /\ ~simulate
    /\ threads[t].pc = "idle"
    /\ mutex \in {"unused", "free"}
    /\ IF op = "set" /\ ~HasSpec(index)
       THEN Raise("set", k, index, <<value>>, "IndexError")
            /\ UNCHANGED <<threads, mutex>>
       ELSE IF op = "set" /\ VoltageOutOfRange(index, value)
       THEN Raise("set", k, index, <<value>>, "OutOfRange")
            /\ UNCHANGED <<threads, mutex>>
       ELSE IF op = "get" /\ get_cache_valid(k, index)
       THEN Local("get", k, index, <<>>, val, valid, <<val[k][index]>>)
            /\ UNCHANGED <<threads, mutex>>
       ELSE /\ threads' = [threads EXCEPT ![t] =
                              [pc |-> IF output_count > 1 THEN "select"
                                      ELSE "command",
                               op |-> op, index |-> index, value |-> value]]
            /\ mutex' = IF mutex = "free" THEN t ELSE mutex
            /\ UNCHANGED <<call, val, valid, dev_sel>>
    /\ UNCHANGED <<driver, simulate, output_count, output_spec, scope,
                   arbitrary_waveform_n, catalog_names, returned, dev_volt>>

\* self._write("instrument:nselect %d" % (index+1)): the instrument selects
\* the channel.
hmp2020_select(t) ==
    /\ threads[t].pc = "select"
    /\ dev_sel' = Selected(dev_sel, <<NSelect(threads[t].index)>>)
    /\ threads' = [threads EXCEPT ![t].pc = "command"]
    /\ UNCHANGED <<driver, simulate, output_count, output_spec, scope, val,
                   valid, arbitrary_waveform_n, catalog_names, returned, call,
                   mutex, dev_volt>>

\* self._write("VOLT %.2f" % value) or float(self._ask("VOLT?")): the
\* instrument applies the command to the channel it has selected; the
\* driver stores the value under the caller's index, sets the flag and
\* returns, releasing the lock where one is in use.
hmp2020_command(t) ==
    LET k == "output_voltage_level"
        index == threads[t].index
        value == threads[t].value
    IN
    /\ threads[t].pc = "command"
    /\ IF threads[t].op = "set"
       THEN /\ dev_volt' = [dev_volt EXCEPT ![dev_sel] = 10 * Cents(value)]
            /\ val' = WithValue(val, k, index, value)
            /\ call' = Call("set", k, index, <<value>>, "ok", <<>>,
                            <<"VOLT " \o Fmt2(value)>>)
       ELSE /\ dev_volt' = dev_volt
            /\ val' = WithValue(val, k, index, dev_volt[dev_sel])
            /\ call' = Call("get", k, index, <<>>, "ok",
                            <<dev_volt[dev_sel]>>, <<"VOLT?">>)
    /\ valid' = set_cache_valid(valid, TRUE, k, index)
    /\ threads' = [threads EXCEPT ![t] =
                     [pc |-> "idle", op |-> "none", index |-> 0, value |-> 0]]
    /\ mutex' = IF mutex = t THEN "free" ELSE mutex
    /\ UNCHANGED <<driver, simulate, output_count, output_spec, scope,
                   arbitrary_waveform_n, catalog_names, returned, dev_sel>>

ConcurrentNext ==
    \E t \in DOMAIN threads :
        \/ \E op \in {"get", "set"}, i \in Channels, v \in VoltageArgs :
              hmp2020_enter(t, op, i, IF op = "set" THEN v ELSE 0)
        \/ hmp2020_select(t)
        \/ hmp2020_command(t)

\* Two callers on one hmp2020 object, each making voltage gets and sets, with
\* no lock (the code as it is) or with every call made under one lock.
ConcurrentSpec ==
    /\ driver = "hmp2020" /\ simulate = FALSE
    /\ output_count \in HmpOutputCounts /\ output_spec \in HmpSpecs
    /\ scope = {"output_voltage_level"}
    /\ val = [k \in Keys |-> [i \in Channels |-> InitialValue(k)]]
    /\ valid = [k \in Keys |-> [i \in Channels |-> FALSE]]
    /\ arbitrary_waveform_n = 0 /\ catalog_names = <<>> /\ returned = {}
    /\ dev_sel = 1 /\ call = NoCall
    /\ threads = [t \in {"A", "B"} |->
                    [pc |-> "idle", op |-> "none", index |-> 0, value |-> 0]]
    /\ mutex \in {"unused", "free"}
    /\ dev_volt \in [1 .. 2 -> {0, 20000}]
    /\ [][ConcurrentNext]_vars

AttributeNext ==
    \/ RigolGetEnabled
    \/ RigolSetEnabled
    \/ RigolGetFrequency
    \/ RigolSetFrequency
    \/ RigolGetFunction
    \/ RigolSetFunction
    \/ rigolDG1022Z_utility_reset

\* A session on the output switch, the frequency and the waveform function of
\* rigolDG1022Z, resets included.
AttributeSpec ==
    /\ driver = "rigolDG1022Z" /\ simulate \in BOOLEAN
    /\ output_count = 2 /\ output_spec = <<>>
    /\ scope \in {sc \in Scopes(RigolKeys) :
                    sc \subseteq {"output_enabled",
                                  "output_standard_waveform_frequency",
                                  "output_standard_waveform_waveform"}}
    /\ val = [k \in Keys |-> [i \in Channels |-> InitialValue(k)]]
    /\ valid = [k \in Keys |-> [i \in Channels |-> FALSE]]
    /\ arbitrary_waveform_n = 0 /\ catalog_names = <<>> /\ returned = {}
    /\ dev_sel = 1 /\ call = NoCall
    /\ threads = [t \in {"A", "B"} |->
                    [pc |-> "idle", op |-> "none", index |-> 0, value |-> 0]]
    /\ mutex = "unused"
    /\ dev_volt = [n \in 1 .. 2 |-> 0]
    /\ [][AttributeNext]_vars

SetterNext ==
    \/ HmpSetCurrent
    \/ HmpSetVoltage
    \/ HmpSetEnabled
    \/ HmpSetOvp
    \/ RigolSetEnabled
    \/ RigolSetImpedance
    \/ RigolSetClock
    \/ RigolSetAmplitude
    \/ RigolSetOffset
    \/ RigolSetDuty
    \/ RigolSetPhase
    \/ RigolSetFrequency
    \/ RigolSetFunction
    \/ RigolSetGain
    \/ RigolSetArbOffset
    \/ RigolSetArbWaveform

\* A session of sets alone, on either driver.
SetterSpec == Init /\ [][SetterNext]_vars

\* The encoding loop of _arbitrary_waveform_create on two samples, once in a
\* session: each sample clipped, scaled, masked and packed into its two
\* bytes. The second sample is the next value above the first, or one of the
\* ends or the middle of the range.
EncodeSample ==
    /\ call = NoCall
    /\ \E f \in SampleValues :
         \E g \in {f + 1, -MaxSample, 0, MaxSample} \cap SampleValues :
            call' = [Call("encode", "none", 0, <<<<f, g>>>>, "ok", <<>>, <<>>)
                     EXCEPT !.block = Pack(<<f, g>>)]
    /\ UNCHANGED <<others, val, valid, dev_sel>>

QuantizerNext == EncodeSample

\* The quantizer of rigolDG1022Z applied to every sample value.
QuantizerSpec == WaveformInit /\ [][QuantizerNext]_vars

----------------------------------------------------------------------------
(* The attribute cache of both drivers. *)

\* value lies in the range of a maximum M: [0, M] when M >= 0, else [M, 0].
InRange(M, value) ==
    IF M >= 0 THEN 0 <= value /\ value <= M ELSE M <= value /\ value <= 0

\* The last call set key k on a channel the range table has an entry for.
RangeChecked(k) == call.op = "set" /\ call.key = k /\ HasSpec(call.index)

\* The getter returned ret, the value the setter was given as arg.
ReturnsValue(k, ret, arg) ==
    IF k = "output_impedance"
    THEN ~arg[1].isstr /\ ret = <<arg[1].n>>
    ELSE ret = arg

\* C1 as claimed: not simulated, the get that follows a successful
\* set(c, k, v) on the same channel and key returns exactly v and sends
\* nothing to the instrument.
C1_SetThenGet ==
    [][(/\ ~simulate
        /\ call.op = "set" /\ call.status = "ok"
        /\ call'.op = "get"
        /\ call'.key = call.key /\ call'.index = call.index)
       => (/\ call'.status = "ok"
           /\ call'.sent = <<>>
           /\ ReturnsValue(call.key, call'.ret, call.arg))]_vars

\* C2 as claimed: a successful set(c, k, v) of a cascading key (output
\* enable, frequency, reference clock source) leaves (c, k) valid with value
\* v and the flag of (c', k) clear for every other channel c', in both
\* drivers.
C2_CascadeInvalidates ==
    (call.op = "set" /\ call.key \in CascadingKeys /\ call.status = "ok") =>
        /\ valid[call.key][call.index]
        /\ val[call.key][call.index] = call.arg[1]
        /\ \A c \in Channels \ {call.index} : ~valid[call.key][c]

NotSelect(cmd) == ~IsNSelect(cmd)

\* The commands of a call other than the channel select.
Queries(sent) == SelectSeq(sent, NotSelect)

\* C8 as claimed: not simulated, a get of (c, k) whose flag is set returns
\* the cached value and sends nothing; a get whose flag is clear sends
\* exactly one read query and, when it succeeds, stores the parsed reply,
\* sets the flag and returns the reply.
C8_GetSemantics ==
    [][(~simulate /\ call'.op = "get") =>
         IF valid[call'.key][call'.index]
         THEN /\ call'.status = "ok"
              /\ call'.sent = <<>>
              /\ call'.ret = <<val[call'.key][call'.index]>>
              /\ val' = val
         ELSE /\ Len(Queries(call'.sent)) <= 1
              /\ call'.status = "ok" =>
                    /\ Len(Queries(call'.sent)) = 1
                    /\ valid'[call'.key][call'.index]
                    /\ call'.ret = <<val'[call'.key][call'.index]>>]_vars

\* The last call was rejected by a validation: a range check, a value outside
\* an enumeration, a wrong file extension, or a length that is no multiple
\* of the quantum.
RejectedByValidation ==
    \/ call.status = "OutOfRange"
    \/ /\ call.status = "UnsupportedValue"
       /\ \/ call.key = "output_reference_clock_source"
             /\ call.arg[1] \notin SampleClockSource
          \/ call.key = "output_standard_waveform_waveform"
             /\ call.arg[1] \notin DOMAIN StandardWaveformMapping
          \/ call.op = "set" /\ call.key = "output_arbitrary_waveform"
             /\ Extension(LowerName(call.arg[1])) # "wfm"
          \/ call.op \in {"create", "create_channel"}
             /\ Len(call.arg[1]) % QUANTUM # 0

\* C9 as claimed: simulated, no get, set, waveform create or waveform assign
\* sends anything; a getter returns the stored value; a setter stores the
\* value unless a validation rejects it (channels without an entry in the
\* range table, the subject of C6, set aside); a create returns a handle
\* unless a validation rejects it; and the range checks and the quantum
\* check reject what they reject when not simulated.
C9_Simulated ==
    simulate =>
        /\ call.sent = <<>> /\ call.block = <<>>
        /\ call.op = "get" =>
              call.status = "ok" /\ call.ret = <<val[call.key][call.index]>>
        /\ call.op = "set" =>
              \/ RejectedByValidation
              \/ driver = "hmp2020" /\ ~HasSpec(call.index)
              \/ call.status = "ok"
                 /\ ReturnsValue(call.key, <<val[call.key][call.index]>>,
                                 IF call.key = "output_arbitrary_waveform"
                                 THEN <<LowerName(call.arg[1])>> ELSE call.arg)
        /\ call.op \in {"create", "create_channel"} =>
              RejectedByValidation \/ (call.status = "ok" /\ call.ret # <<>>)
        /\ RangeChecked("output_voltage_level") =>
              (call.status = "OutOfRange"
                 <=> ~InRange(output_spec[call.index + 1].voltage_max,
                              call.arg[1]))
        /\ call.op \in {"create", "create_channel"}
             /\ Len(call.arg[1]) % QUANTUM # 0 =>
              call.status = "UnsupportedValue"

----------------------------------------------------------------------------
(* The range validator of hmp2020. *)

C5_RejectedUntouched ==
    [][(/\ call'.op = "set"
        /\ call'.key \in {"output_voltage_level", "output_current_limit"}
        /\ call'.status = "OutOfRange")
       => (/\ call'.sent = <<>>
           /\ val' = val
           /\ valid' = valid
           /\ dev_sel' = dev_sel)]_vars

\* A value was rejected on a two-output instrument, not simulated, while the
\* cell holds an earlier accepted value.
C5_Witness ==
    /\ call.op = "set"
    /\ call.key \in {"output_voltage_level", "output_current_limit"}
    /\ call.status = "OutOfRange"
    /\ ~simulate /\ output_count = 2
    /\ valid[call.key][call.index]
    /\ val[call.key][call.index] # call.arg[1]

\* C6 as claimed: on the two-output hmp2020 (voltage_max 30), not simulated,
\* set voltage(i, v) for any channel i and any v in [0, 30] succeeds, sends
\* exactly the select of i+1 and then the voltage write with v in two
\* decimals, and leaves v cached and valid, so that a following get returns
\* it without device I/O.
C6_EveryChannelSettable ==
    (/\ driver = "hmp2020" /\ output_count = 2 /\ output_spec = HMP2020_SPEC
     /\ ~simulate
     /\ call.op = "set" /\ call.key = "output_voltage_level"
     /\ 0 <= call.arg[1] /\ call.arg[1] <= 30000
     /\ call.status # "TransportFailure")
    => (/\ call.status = "ok"
        /\ call.sent = <<NSelect(call.index), "VOLT " \o Fmt2(call.arg[1])>>
        /\ val["output_voltage_level"][call.index] = call.arg[1]
        /\ valid["output_voltage_level"][call.index])

\* C7: on hmp2020 a call that sends anything for channel i sends, when there
\* is more than one output, 'instrument:nselect i+1' first and no other
\* select after it, so that the channel register is i+1 once the select was
\* processed; the select is sent whatever channel was selected before; with
\* one output no select is sent.
C7_SelectThenAct ==
    (driver = "hmp2020" /\ call.sent # <<>>) =>
        IF output_count > 1
        THEN /\ call.sent[1] = NSelect(call.index)
             /\ \A j \in 2 .. Len(call.sent) : ~IsNSelect(call.sent[j])
             /\ (Len(call.sent) >= 2 => dev_sel = call.index + 1)
        ELSE \A j \in 1 .. Len(call.sent) : ~IsNSelect(call.sent[j])

\* A query went out behind the select of the second channel.
C7_Witness ==
    /\ driver = "hmp2020" /\ output_count = 2
    /\ call.op = "get" /\ call.index = 1 /\ call.status = "ok"
    /\ call.sent = <<NSelect(1), "CURR?">>
    /\ dev_sel = 2

----------------------------------------------------------------------------
(* The waveform encoder of rigolDG1022Z. *)

\* C10: a waveform create on a sample sequence whose length is no multiple
\* of the quantum (8) fails with UnsupportedValue and has by then read no
\* catalog, advanced no handle counter and sent no header and no block; a
\* sequence whose length is a positive multiple of 8 is not rejected so.
C10_QuantumFirst ==
    [][(call'.op \in {"create", "create_channel"} /\ call'.arg[1] # <<>>) =>
         IF Len(call'.arg[1]) % QUANTUM # 0
         THEN /\ call'.status = "UnsupportedValue"
              /\ call'.sent = <<>> /\ call'.block = <<>>
              /\ arbitrary_waveform_n' = arbitrary_waveform_n
              /\ catalog_names' = catalog_names
              /\ val' = val
         ELSE call'.op = "create" =>
                /\ call'.status # "UnsupportedValue"
                /\ call'.status = "ok" =>
                      /\ call'.ret = <<Handle(arbitrary_waveform_n')>>
                      /\ Len(call'.block) = 2 * Len(call'.arg[1])]_vars

\* A length of 10 was rejected by an instance that had uploaded before, not
\* simulated.
C10_Witness ==
    /\ call.op = "create" /\ Len(call.arg[1]) = QUANTUM + 2
    /\ call.status = "UnsupportedValue"
    /\ ~simulate
    /\ arbitrary_waveform_n > 0 /\ catalog_names # <<>>

\* The number of catalog queries among the commands sent.
CatalogQueries(sent) ==
    Cardinality({j \in 1 .. Len(sent) : sent[j] = CATALOG_QUERY})

\* C11: the handle counter never decreases; a waveform create that returns
\* returns the first name w<m>.wfm above the counter's previous value that
\* is absent from the catalog its own single catalog query fetched, leaves
\* the counter at m, and returns a handle the session has not been given
\* before, whatever the instrument's storage lists.
C11_HandleUnique ==
    [][/\ arbitrary_waveform_n' >= arbitrary_waveform_n
       /\ (call'.op = "create" /\ call'.status = "ok") =>
             LET m == arbitrary_waveform_n' IN
             /\ call'.ret = <<Handle(m)>>
             /\ m > arbitrary_waveform_n
             /\ ~InSeq(Handle(m), catalog_names')
             /\ \A j \in (arbitrary_waveform_n + 1) .. (m - 1) :
                   InSeq(Handle(j), catalog_names')
             /\ ~simulate =>
                   /\ CatalogQueries(call'.sent) = 1
                   /\ call'.sent[1] = CATALOG_QUERY
                   /\ catalog_names' = NamesOf(Tail(call'.reply))
       /\ (call'.op \in {"create", "create_channel"} /\ call'.status = "ok") =>
             /\ call'.ret[1] \notin returned
             /\ returned' = returned \cup {call'.ret[1]}]_vars

\* The instrument lists w0001.wfm and w0002.wfm, and the session's first
\* returned handle is w0003.wfm.
C11_Witness ==
    /\ call.op = "create" /\ call.status = "ok"
    /\ catalog_names = <<"w0001.wfm", "w0002.wfm">>
    /\ call.ret = <<"w0003.wfm">>
    /\ returned = {"w0003.wfm"}

\* The samples given to the encoder by the last call, and the code the block
\* carries for the j-th of them.
Encoded == IF call.op \in {"encode", "create", "create_channel"}
              /\ call.block # <<>>
           THEN call.arg[1] ELSE <<>>

CodeAt(j) == call.block[2 * j - 1] * 256 + call.block[2 * j]

\* C12: the code packed for a sample of exactly 1.0 is 4094, for -1.0 it is
\* 0 and for 0.0 it is 2047; every sample above 1.0 is packed as 4094 and
\* every sample below -1.0 as 0.
C12_FixedPoints ==
    \A j \in 1 .. Len(Encoded) :
        LET f == Encoded[j] IN
        /\ f = 1000 => CodeAt(j) = 4094
        /\ f = -1000 => CodeAt(j) = 0
        /\ f = 0 => CodeAt(j) = 2047
        /\ f > 1000 => CodeAt(j) = 4094
        /\ f < -1000 => CodeAt(j) = 0

\* A sample above 1.0 has been packed as 4094.
C12_Witness ==
    /\ call.op = "encode"
    /\ call.arg[1] = <<MaxSample, -MaxSample>>
    /\ call.block = <<15, 254, 0, 0>>

\* C13: for every sample, inside or outside [-1, 1], the packed code is an
\* integer in 0 .. 4094 (4095 is never emitted), its two bytes are bytes, the
\* 20-bit mask leaves the scaled value as it is, and a sample that is not
\* smaller than another is not given a smaller code.
C13_QuantizerRange ==
    \A j \in 1 .. Len(Encoded) :
        /\ CodeAt(j) \in 0 .. 4094
        /\ call.block[2 * j - 1] \in 0 .. 255
        /\ call.block[2 * j] \in 0 .. 255
        /\ CodeAt(j) = Scale(Clip(Encoded[j]))
        /\ \A k \in 1 .. Len(Encoded) :
              Encoded[j] <= Encoded[k] => CodeAt(j) <= CodeAt(k)

\* Two neighbouring samples at the upper end of the range: the larger has
\* the larger code, which is the top code 4094.
C13_Witness ==
    /\ call.op = "encode"
    /\ call.arg[1] = <<999, 1000>>
    /\ CodeAt(1) < CodeAt(2)
    /\ CodeAt(2) = 4094

\* C14: a waveform create on an empty sample sequence is rejected while its
\* input is validated: it ends in an error of the validation, having read no
\* catalog, advanced no handle counter and sent no header and no block.
C14_EmptyRejected ==
    [][(call'.op \in {"create", "create_channel"} /\ call'.arg[1] = <<>>) =>
         /\ call'.status \in {"UnsupportedValue", "IndexError"}
         /\ call'.sent = <<>>
         /\ arbitrary_waveform_n' = arbitrary_waveform_n
         /\ catalog_names' = catalog_names]_vars

----------------------------------------------------------------------------
(* Errors and the transport. *)

\* C15: a setter, a waveform assignment or a waveform create that ends in a
\* validation error (OutOfRange or UnsupportedValue) has sent no command and
\* no query.
C15_ValidationBeforeTraffic ==
    (call.op \in {"set", "create"}
     /\ call.status \in {"OutOfRange", "UnsupportedValue"})
        => call.sent = <<>>

\* The command that assigns the stored waveform v to channel index.
AssignCommand(index, v) == ":ch" \o Ch(index) \o ":waveform \"" \o v \o "\""

\* The positions of the waveform-assign commands among the commands sent.
Assigns(sent) ==
    {j \in 1 .. Len(sent) :
        \E i \in Channels, m \in 1 .. MaxHandle :
            sent[j] = AssignCommand(i, Handle(m))}

\* C16: a waveform assignment to channel c of a name whose extension is not
\* wfm, or whose lower-cased form is not in the catalog fetched by this
\* call, ends UnsupportedValue, sends no assign command and leaves the stored
\* names unchanged; a name of extension wfm that the fetched catalog lists
\* leads to one assign command, for channel c+1 and the lower-cased name,
\* and, the transport not failing, to that name stored for channel c alone.
C16_Assign ==
    [][(call'.op = "set" /\ call'.key = "output_arbitrary_waveform") =>
         LET c == call'.index
             v == LowerName(call'.arg[1])
             fetched == Len(call'.reply) >= 2
             listed == fetched /\ InSeq(v, NamesOf(Tail(call'.reply)))
         IN
         /\ (Extension(v) # "wfm" \/ (fetched /\ ~listed)) =>
               /\ call'.status = "UnsupportedValue"
               /\ Assigns(call'.sent) = {}
               /\ val' = val
         /\ (Extension(v) = "wfm" /\ listed) =>
               /\ call'.status \in {"ok", "TransportFailure"}
               /\ Assigns(call'.sent) = {Len(call'.sent)}
               /\ call'.sent[Len(call'.sent)] = AssignCommand(c, v)
               /\ call'.status = "ok" =>
                     val' = WithValue(val, "output_arbitrary_waveform", c, v)
               /\ call'.status # "ok" => val' = val
         /\ call'.status = "ok" => (Extension(v) = "wfm" /\ listed)]_vars

\* W0002.WFM, which the instrument lists, was assigned to the second channel.
C16_Witness ==
    /\ call.op = "set" /\ call.key = "output_arbitrary_waveform"
    /\ call.index = 1 /\ call.arg = <<"W0002.WFM">> /\ call.status = "ok"
    /\ call.sent = <<CATALOG_QUERY, ":ch2:waveform \"w0002.wfm\"">>
    /\ val["output_arbitrary_waveform"][1] = "w0002.wfm"

\* The last call was a duty-cycle set that succeeded, not simulated; primed,
\* the same of the call of the next state.
DutySet ==
    /\ call.op = "set" /\ call.status = "ok" /\ ~simulate
    /\ call.key = "output_standard_waveform_duty_cycle_high"

\* C17: the command a duty-cycle set sends is that of the requested channel
\* and the requested value: two sets that differ in the channel or in the
\* value send different commands.
C17_DutyCommand ==
    [][(DutySet /\ DutySet' /\ <<call.index, call.arg>> # <<call'.index, call'.arg>>)
          => call.sent # call'.sent]_vars

\* C18: a set during which the transport fails ends in that failure, has
\* sent no command twice, and leaves every stored value and every validity
\* flag, those of the sibling channels included, as they were.
C18_FailedSetUntouched ==
    [][(call'.op = "set" /\ call'.status = "TransportFailure") =>
         /\ call'.ret = <<>>
         /\ call'.sent # <<>>
         /\ \A i, j \in 1 .. Len(call'.sent) :
               i # j => call'.sent[i] # call'.sent[j]
         /\ val' = val
         /\ valid' = valid]_vars

\* The transport failed in a cascading set while the flag of the other
\* channel was set.
C18_Witness ==
    /\ call.op = "set" /\ call.status = "TransportFailure"
    /\ call.key \in CascadingKeys
    /\ \E i \in Channels : i # call.index /\ valid[call.key][i]

\* C19: a waveform create whose catalog query got no reply, the transport
\* failing, ends in that failure and returns no handle; the handle counter is
\* not advanced and nothing but the query was sent: no destination, no
\* header, no block.
C19_CatalogFailure ==
    [][(/\ call'.op \in {"create", "create_channel"}
        /\ call'.sent # <<>> /\ call'.sent[1] = CATALOG_QUERY
        /\ call'.reply = <<>>) =>
         /\ call'.status = "TransportFailure"
         /\ call'.ret = <<>>
         /\ call'.sent = <<CATALOG_QUERY>>
         /\ call'.block = <<>>
         /\ arbitrary_waveform_n' = arbitrary_waveform_n
         /\ returned' = returned]_vars

\* The catalog query failed in an instance that had uploaded before.
C19_Witness ==
    /\ call.op = "create" /\ call.status = "TransportFailure"
    /\ call.sent = <<CATALOG_QUERY>>
    /\ arbitrary_waveform_n > 0 /\ returned # {}

\* The write of the boolean b to the output-enabled attribute of a channel
\* with the tokens 1 and 0, in the command form of either driver.
EnabledCommands(index, b) ==
    {"OUTP " \o get_bool_str(b),
     ":OUTP" \o Ch(index) \o ":state " \o get_bool_str(b)}

\* C20: a set of output enabled that succeeds stores the boolean it was
\* given and, when not simulated, writes it last, as the token 1 for true
\* and 0 for false.
C20_BooleanTokens ==
    (call.op = "set" /\ call.key = "output_enabled" /\ call.status = "ok") =>
        /\ val["output_enabled"][call.index] = call.arg[1]
        /\ ~simulate =>
              call.sent[Len(call.sent)]
                  \in EnabledCommands(call.index, call.arg[1])

----------------------------------------------------------------------------
(* The upload and the assignment of a waveform. *)

\* C22: a waveform create that succeeds, not simulated, has sent the catalog
\* query, the destination command naming the handle it returns, the nine
\* header commands in their order and last the block with the prefix
\* ':curve ', of two bytes per sample; a handle is returned only by a call
\* whose last transport call was that block write.
C22_CommandOrder ==
    /\ (call.op = "create" /\ call.status = "ok" /\ ~simulate) =>
          /\ Len(call.ret) = 1
          /\ Len(call.sent) = 12
          /\ SubSeq(call.sent, 1, 10) =
                <<":MEMory:STATe:CATalog?",
                  ":data:destination \"" \o call.ret[1] \o "\"",
                  ":wfmpre:bit_nr 12",
                  ":wfmpre:bn_fmt rp",
                  ":wfmpre:byt_nr 2",
                  ":wfmpre:byt_or msb",
                  ":wfmpre:encdg bin",
                  ":wfmpre:pt_fmt y",
                  ":wfmpre:yzero 0",
                  ":wfmpre:ymult 4.882812e-04">>
          /\ call.sent[11] \in {":wfmpre:xincr 1.000000e-07", ":wfmpre:xincr nan"}
          /\ call.sent[12] = ":curve "
          /\ Len(call.block) = 2 * Len(call.arg[1])
    /\ (call.op = "create" /\ call.ret # <<>>) =>
          /\ call.status = "ok"
          /\ call.sent # <<>> /\ call.sent[Len(call.sent)] = ":curve "

\* Sixteen samples were uploaded as w0002.wfm, the instrument listing
\* w0001.wfm.
C22_Witness ==
    /\ call.op = "create" /\ call.status = "ok" /\ ~simulate
    /\ call.ret = <<"w0002.wfm">>
    /\ call.sent[2] = ":data:destination \"w0002.wfm\""
    /\ Len(call.block) = 4 * QUANTUM

\* The names of the catalog a call received as reply; none when it received
\* no reply.
Fetched(reply) == IF Len(reply) >= 2 THEN NamesOf(Tail(reply)) ELSE <<>>

\* C23: the search for an unused handle ends: a create that succeeds has
\* advanced the counter, and whenever a create advances the counter it has
\* made at most (number of catalog names) + 1 probes, one per increment, and
\* leaves the counter at the smallest number above its starting value whose
\* name the catalog does not list.
C23_ProbeTerminates ==
    [][/\ (call'.op = "create" /\ call'.status = "ok") =>
             arbitrary_waveform_n' > arbitrary_waveform_n
       /\ (call'.op \in {"create", "create_channel"}
           /\ arbitrary_waveform_n' # arbitrary_waveform_n) =>
             LET names == Fetched(call'.reply)
                 probes == arbitrary_waveform_n' - arbitrary_waveform_n
             IN /\ probes >= 1
                /\ probes <= Len(names) + 1
                /\ ~InSeq(Handle(arbitrary_waveform_n'), names)
                /\ \A j \in (arbitrary_waveform_n + 1)
                              .. (arbitrary_waveform_n' - 1) :
                      InSeq(Handle(j), names)]_vars

\* The search has passed the one name the catalog lists.
C23_Witness ==
    /\ call.op = "create" /\ call.status = "ok"
    /\ Fetched(call.reply) = <<"w0001.wfm">>
    /\ call.ret = <<"w0002.wfm">>
    /\ arbitrary_waveform_n = 2
    /\ returned = {"w0002.wfm"}

\* C25: arbitrary_waveform_create_channel_waveform on a non-empty list of
\* samples of a valid length ends ok, in simulation and when the catalog the
\* assignment fetched lists the new handle, unless the transport fails; a
\* call that ends ok returns the handle of the counter create left and has
\* stored that handle as the channel's arbitrary waveform.
C25_CreateAndAssign ==
    [][(/\ call'.op = "create_channel" /\ call'.arg[2] = "list"
        /\ call'.arg[1] # <<>> /\ Len(call'.arg[1]) % QUANTUM = 0) =>
         LET handle == Handle(arbitrary_waveform_n') IN
         /\ (simulate \/ InSeq(handle, catalog_names')) =>
               call'.status \in {"ok", "TransportFailure"}
         /\ call'.status = "ok" =>
               /\ call'.ret = <<handle>>
               /\ val'["output_arbitrary_waveform"][call'.index] = handle]_vars

----------------------------------------------------------------------------
(* The attributes of rigolDG1022Z. *)

\* The wire token of each supported waveform symbol, and the replies of the
\* instrument that carry it in some letter case.
TokenOf(symbol) ==
    CASE symbol = "sine" -> "sin"
      [] symbol = "square" -> "squ"
      [] symbol = "ramp_up" -> "ramp"
      [] symbol = "dc" -> "dc"

RepliesOf(symbol) ==
    CASE symbol = "sine" -> {"sin", "SIN", "Sin"}
      [] symbol = "square" -> {"squ", "SQU", "Squ"}
      [] symbol = "ramp_up" -> {"ramp", "RAMP", "Ramp"}
      [] symbol = "dc" -> {"dc", "DC", "Dc"}

\* C24: a set of the waveform function to one of sine, square, ramp_up and
\* dc that succeeds stores the symbol and, not simulated, writes
\* ':SOUR<c+1>:FUNC <token>'; a get that queried the instrument returns and
\* stores the symbol whose token the reply carries; a set to any other
\* symbol ends UnsupportedValue with nothing sent and values and flags as
\* they were.
C24_EnumRoundTrip ==
    [][(call'.key = "output_standard_waveform_waveform") =>
         LET c == call'.index
             k == call'.key
             supported == {"sine", "square", "ramp_up", "dc"}
         IN
         /\ (call'.op = "set" /\ call'.arg[1] \in supported) =>
               /\ call'.status \in {"ok", "TransportFailure"}
               /\ ~simulate =>
                     call'.sent = <<":SOUR" \o Ch(c) \o ":FUNC "
                                        \o TokenOf(call'.arg[1])>>
               /\ call'.status = "ok" =>
                     /\ val'[k][c] = call'.arg[1]
                     /\ valid'[k][c]
         /\ (call'.op = "set" /\ call'.arg[1] \notin supported) =>
               /\ call'.status = "UnsupportedValue"
               /\ call'.sent = <<>>
               /\ val' = val /\ valid' = valid
         /\ (call'.op = "get" /\ call'.reply # <<>>) =>
               /\ ~valid[k][c]
               /\ \A symbol \in supported :
                     call'.reply[1] \in RepliesOf(symbol) =>
                        /\ call'.status = "ok"
                        /\ call'.ret = <<symbol>>
                        /\ val'[k][c] = symbol
                        /\ valid'[k][c]]_vars

\* The instrument answered Squ to the function query of the second channel,
\* the first being set to ramp_up: the get returned square.
C24_Witness ==
    /\ call.op = "get" /\ call.key = "output_standard_waveform_waveform"
    /\ call.index = 1 /\ call.reply = <<"Squ">> /\ call.ret = <<"square">>
    /\ val["output_standard_waveform_waveform"][0] = "ramp_up"
    /\ valid["output_standard_waveform_waveform"][0]

\* C27: outside simulation utility_reset sends *RST and a reset that succeeds
\* clears every validity flag and keeps the values, so that the get that
\* follows it queries the instrument; in simulation utility_reset sends
\* nothing and leaves every value and every flag as they were.
C27_Reset ==
    [][/\ call'.op = "reset" =>
            /\ val' = val
            /\ IF simulate
               THEN /\ call'.status = "ok" /\ call'.sent = <<>>
                    /\ valid' = valid
               ELSE /\ call'.sent = <<"*RST">>
                    /\ call'.status \in {"ok", "TransportFailure"}
                    /\ call'.status = "ok" =>
                          \A k \in Keys : \A c \in Channels : ~valid'[k][c]
                    /\ call'.status # "ok" => valid' = valid
       /\ (/\ call.op = "reset" /\ call.status = "ok" /\ ~simulate
           /\ call'.op = "get") => call'.sent # <<>>]_vars

\* A reset that succeeded on an instrument one value of which had been cached:
\* the value is still stored and no flag is set.
C27_Witness ==
    /\ call.op = "reset" /\ call.status = "ok" /\ call.sent = <<"*RST">>
    /\ \E k \in scope : \E c \in Channels : val[k][c] # InitialValue(k)
    /\ \A k \in Keys : \A c \in Channels : ~valid[k][c]

----------------------------------------------------------------------------
(* Concurrent callers of hmp2020. *)

\* The cache of the last call holds what the instrument holds for the
\* channel the call asked for.
Coherent ==
    10 * Cents(val[call.key][call.index]) = dev_volt[call.index + 1]

\* No caller is inside a call.
Quiet == \A t \in DOMAIN threads : threads[t].pc = "idle"

\* C21: where every call is made under the one lock, a caller inside a call
\* holds the lock and is alone, a caller whose VOLT command or query is
\* about to be processed finds the instrument on the channel it asked for,
\* and the value a call has just recorded is the one the instrument holds
\* for the channel of the call.
C21_LockedPairs ==
    mutex # "unused" =>
        /\ \A t \in DOMAIN threads :
              /\ threads[t].pc # "idle" => mutex = t
              /\ (threads[t].pc = "command" /\ output_count > 1) =>
                    dev_sel = threads[t].index + 1
        /\ (call.sent # <<>> /\ Quiet /\ output_count > 1) =>
              dev_sel = call.index + 1
        /\ (call.sent # <<>> /\ Quiet) => Coherent

\* Without the lock: a set on the first channel had its VOLT command
\* processed while the instrument was on the second channel, and the cache
\* of the first channel holds a value the first channel does not have.
C21_Witness ==
    /\ mutex = "unused"
    /\ call.op = "set" /\ call.index = 0 /\ call.sent = <<"VOLT 10.00">>
    /\ dev_sel = 2
    /\ valid["output_voltage_level"][0]
    /\ ~Coherent

====
